---- MODULE Spec2Model ----
(***************************************************************************)
(* Ladybug Hosting v7: the node registry (BotNetServer), the bot routes of *)
(* the HTTP server, and the periodic sweeps of the BotManager worker.      *)
(***************************************************************************)
EXTENDS Integers, Sequences, FiniteSets, Bags, TLC

VARIABLES
    servers,    \* BotNetServer.servers: server id -> [capacity, activeBots, status]
    calls,      \* the registry calls made directly on botNetServer, with their results
    store,      \* the Bot collection: bot id -> bot record, for the bots that exist
    creq,       \* POST /api/bots: per bot id, the request's position and document
    deleting,   \* DELETE /api/bots/:id: the bot ids released and awaiting their delete
    nDel,       \* DELETE requests that found their bot, so far
    runs,       \* BotManager: the executions of the sweeps in progress
    timers,     \* BotManager: the pending setTimeout callbacks, a bag
    exited,     \* BotManager: whether the worker process is up
    now,        \* Date.now(), in minutes
    advances,   \* how often the clock has moved
    isRunning,  \* BotManager.isRunning
    shut        \* BotManager.shutdown(): the call's position and the bots it found

regVars == <<servers, calls>>

sysVars == <<store, creq, deleting, nDel, runs, timers, exited, now, advances,
             isRunning, shut>>

vars == <<servers, calls, store, creq, deleting, nDel, runs, timers, exited,
          now, advances, isRunning, shut>>

----------------------------------------------------------------------------
(* Bounds *)

MaxCalls == 2           \* direct registry calls, from a drawn registry
MaxScenarioCalls == 4   \* direct registry calls, from the default registry
MaxLoad == 1            \* largest activeBots of a drawn registry
MaxBots == 2            \* bot ids ever created
MaxDeletes == 2         \* DELETE requests that find their bot
MaxRuns == 1            \* sweep executions in progress at once
MaxTimers == 1          \* pending setTimeout callbacks
MaxAdvances == 1        \* moves of the clock
MaxUptime == 60         \* largest metrics.uptime, in seconds
MaxErrors == 2
MaxHealthCalls == 1
MaxReportBots == 3          \* largest metrics.errors

----------------------------------------------------------------------------
(* The node registry *)

Null == "null"

ServerOrder == <<"server-1", "server-2", "server-3">>

ServerIds == {ServerOrder[i] : i \in 1..Len(ServerOrder)}

DefaultCapacity == 100

Statuses == {"online", "offline", "degraded"}

Capacities == {1, 2}

UnknownServer == "server-9"

initializeServers ==
    [s \in ServerIds |->
        [capacity |-> DefaultCapacity, activeBots |-> 0, status |-> "online"]]

\* loadRatio < minLoad, with minLoad = Infinity while no server has been taken
\* (capacities are positive, so a / c < b / d iff a * d < b * c).
LoadLess(srv, s, best) ==
    \/ best = Null
    \/ srv[s].activeBots * srv[best].capacity
         < srv[best].activeBots * srv[s].capacity

TakesServerLE(srv, s, best) ==
    /\ \/ best = Null
       \/ srv[s].activeBots * srv[best].capacity
            <= srv[best].activeBots * srv[s].capacity
    /\ srv[s].status = "online"

TakesServerSpare(srv, s, best) ==
    /\ LoadLess(srv, s, best)
    /\ srv[s].status = "online"
    /\ srv[s].activeBots < srv[s].capacity

\* the condition of the loop body of assignBot
TakesServer(srv, s, best) ==
    LoadLess(srv, s, best) /\ srv[s].status = "online"

\* the loop of assignBot over the Map, in insertion order, from position i
RECURSIVE ScanServers(_, _, _)
ScanServers(srv, i, best) ==
    IF i > Len(ServerOrder) THEN best
    ELSE ScanServers(srv, i + 1,
                     IF TakesServer(srv, ServerOrder[i], best)
                     THEN ServerOrder[i] ELSE best)

BestServer(srv) == ScanServers(srv, 1, Null)

IncrementNone(srv, s) == srv

IncrementActive(srv, s) == [srv EXCEPT ![s].activeBots = @ + 1]

assignBotFallback(srv) ==
    LET best == BestServer(srv)
    IN  IF best # Null
        THEN [servers |-> IncrementActive(srv, best), ret |-> best]
        ELSE [servers |-> IncrementActive(srv, ServerOrder[1]), ret |-> Null]

\* assignBot: the registry after the call and the value returned
assignBot(srv) ==
    LET best == BestServer(srv)
    IN  IF best # Null
        THEN [servers |-> IncrementActive(srv, best), ret |-> best]
        ELSE [servers |-> srv, ret |-> Null]

releaseBotReset(srv, id) ==
    IF id \in DOMAIN srv
    THEN [srv EXCEPT ![id].activeBots = 0]
    ELSE srv

releaseBotClamped(srv, id) ==
    IF id \in DOMAIN srv /\ srv[id].activeBots > 0
    THEN [srv EXCEPT ![id].activeBots = @ - 1]
    ELSE srv

releaseBot(srv, id) ==
    IF id \in DOMAIN srv
    THEN [srv EXCEPT ![id].activeBots = @ - 1]
    ELSE srv

----------------------------------------------------------------------------
(* The Bot collection and the documents read from it *)

BotIds == 1..MaxBots

BotTypes == {"discord", "telegram", "web", "monitor", "custom"}

\* the types a POST /api/bots request is made with
CreateTypes == {"discord", "web"}

\* the schema's defaults for metrics, and the fields POST /api/bots sets
NewBot(type, serverId, lastActive) ==
    [type |-> type, status |-> "starting", serverId |-> serverId,
     lastActive |-> lastActive, errors |-> 0, uptime |-> 0]

Exists(st, b) == b \in DOMAIN st

\* bot.save() of a loaded document: the modified paths are $set on the record
\* with the document's _id; no record is created when it is gone.
SaveFields(st, b, upd) ==
    IF Exists(st, b)
    THEN [st EXCEPT ![b] = [f \in DOMAIN st[b] |->
                               IF f \in DOMAIN upd THEN upd[f] ELSE st[b][f]]]
    ELSE st

\* Bot.findByIdAndDelete
DeleteById(st, b) == [c \in DOMAIN st \ {b} |-> st[c]]

\* the first save of a new document
InsertBot(st, b, rec) == [c \in DOMAIN st \cup {b} |-> IF c = b THEN rec ELSE st[c]]

\* the document Bot.find hands to a sweep
DocOf(st, b) ==
    [id |-> b, type |-> st[b].type, lastActive |-> st[b].lastActive,
     errors |-> st[b].errors, uptime |-> st[b].uptime]

RECURSIVE DocsFrom(_, _, _)
DocsFrom(st, S, b) ==
    IF b > MaxBots THEN <<>>
    ELSE (IF b \in S THEN <<DocOf(st, b)>> ELSE <<>>) \o DocsFrom(st, S, b + 1)

\* the result of Bot.find(filter), in the collection's order
FindDocs(st, S) == DocsFrom(st, S, 1)

----------------------------------------------------------------------------
(* Time: minutes; metrics.uptime is in seconds *)

ClockSteps == {1, 10, 1441}

HeartbeatSeconds == 30

ChatTimeout == 2

CustomTimeout == 5

OrphanAge == 1440

RestartBudget == 5

----------------------------------------------------------------------------
(* The health checks *)

\* what axios.get gives: a response with its status, or an exception
ProbeOk == [threw |-> FALSE, status |-> 200]

Probes == {ProbeOk, [threw |-> FALSE, status |-> 500], [threw |-> TRUE, status |-> 0]}

\* config.targetUrl is set (the documents of the sweeps all have one)
HasUrl(doc) == IF "targetUrl" \in DOMAIN doc THEN doc.targetUrl ELSE TRUE

checkDiscordBot(doc, t) == t - doc.lastActive < ChatTimeout

checkTelegramBot(doc, t) == t - doc.lastActive < ChatTimeout

checkWebBotLE(doc, probe) ==
    IF HasUrl(doc) THEN ~probe.threw /\ probe.status <= 500 ELSE TRUE

checkWebBot(doc, probe) ==
    IF HasUrl(doc) THEN ~probe.threw /\ probe.status < 500 ELSE TRUE

checkMonitorBot(doc) == doc.errors < 3

checkCustomBotShort(doc, t) == t - doc.lastActive < ChatTimeout

checkCustomBot(doc, t) == t - doc.lastActive < CustomTimeout

checkBotHealth(doc, t, probe) ==
    CASE doc.type = "discord" -> checkDiscordBot(doc, t)
      [] doc.type = "telegram" -> checkTelegramBot(doc, t)
      [] doc.type = "web" -> checkWebBot(doc, probe)
      [] doc.type = "monitor" -> checkMonitorBot(doc)
      [] OTHER -> checkCustomBot(doc, t)

----------------------------------------------------------------------------
(* The HTTP server: POST /api/bots and DELETE /api/bots/:id *)

\* res is the HTTP status answered, 0 while none has been
NoRequest == [pc |-> "new", type |-> Null, serverId |-> Null, lastActive |-> 0, res |-> 0]

RequestAt(pc) == [NoRequest EXCEPT !.pc = pc]

Responded(pc, code) == [NoRequest EXCEPT !.pc = pc, !.res = code]

\* the handler up to its first await: assignBot, the 503 return, new Bot(...)
CreateAssign(b, type) ==
    /\ creq[b].pc = "new"
    /\ \A c \in BotIds : c < b => creq[c].pc # "new"
    /\ LET r == assignBot(servers)
       IN  /\ servers' = r.servers
           /\ creq' = [creq EXCEPT ![b] =
                          IF r.ret = Null THEN Responded("done", 503)
                          ELSE [pc |-> "saving", type |-> type,
                                serverId |-> r.ret, lastActive |-> now,
                                res |-> 0]]
    /\ UNCHANGED <<calls, store, deleting, nDel, runs, timers, exited, now, advances, isRunning, shut>>

\* await bot.save(): the record is inserted and the start-up timer set, or the
\* save fails (validation, or the store) and the catch answers 500
CreateSave(b, ok) ==
    /\ creq[b].pc = "saving"
    /\ IF ok
       THEN /\ store' = InsertBot(store, b,
                           NewBot(creq[b].type, creq[b].serverId, creq[b].lastActive))
            /\ creq' = [creq EXCEPT ![b] = Responded("timer", 201)]
       ELSE /\ store' = store
            /\ creq' = [creq EXCEPT ![b] = Responded("done", 500)]
    /\ UNCHANGED <<servers, calls, deleting, nDel, runs, timers, exited, now, advances, isRunning, shut>>

\* the setTimeout callback of the handler, 2000 ms later
CreateStarted(b, ok) ==
    /\ creq[b].pc = "timer"
    /\ store' = IF ok THEN SaveFields(store, b, [status |-> "running"]) ELSE store
    /\ creq' = [creq EXCEPT ![b].pc = "done"]
    /\ UNCHANGED <<servers, calls, deleting, nDel, runs, timers, exited, now, advances, isRunning, shut>>

\* Bot.findById found the bot (404 when it did not): releaseBot, then the
\* delete is issued
DeleteFind(b) ==
    /\ nDel < MaxDeletes
    /\ Exists(store, b)
    /\ servers' = releaseBot(servers, store[b].serverId)
    /\ deleting' = deleting (+) SetToBag({b})
    /\ nDel' = nDel + 1
    /\ UNCHANGED <<calls, store, creq, runs, timers, exited, now, advances, isRunning, shut>>

\* await Bot.findByIdAndDelete
DeleteApply(b, ok) ==
    /\ BagIn(b, deleting)
    /\ deleting' = deleting (-) SetToBag({b})
    /\ store' = IF ok THEN DeleteById(store, b) ELSE store
    /\ UNCHANGED <<servers, calls, creq, nDel, runs, timers, exited, now, advances, isRunning, shut>>

----------------------------------------------------------------------------
(* The BotManager worker *)

SweepKinds == {"heartbeat", "cleanup", "restart"}

\* the slots for executions of sweeps in progress
RunIds == DOMAIN runs

IdleRun == [kind |-> "idle", bots |-> <<>>, i |-> 0, at |-> 0]

SelectedNoAge(kind, st, t) ==
    CASE kind = "heartbeat" ->
            {b \in DOMAIN st : st[b].status = "running"}
      [] kind = "cleanup" ->
            {b \in DOMAIN st : st[b].status \in {"error", "idle"}}
      [] kind = "restart" ->
            {b \in DOMAIN st : /\ st[b].status = "error"
                               /\ st[b].errors < RestartBudget}

\* the filter of the sweep's Bot.find
Selected(kind, st, t) ==
    CASE kind = "heartbeat" ->
            {b \in DOMAIN st : st[b].status = "running"}
      [] kind = "cleanup" ->
            {b \in DOMAIN st : /\ st[b].lastActive < t - OrphanAge
                               /\ st[b].status \in {"error", "idle"}}
      [] kind = "restart" ->
            {b \in DOMAIN st : /\ st[b].status = "error"
                               /\ st[b].errors < RestartBudget}

CurrentDoc(r) == runs[r].bots[runs[r].i]

\* the for loop moves to the next document, or the sweep returns
Advance(r) ==
    IF runs[r].i = Len(runs[r].bots) THEN [runs EXCEPT ![r] = IdleRun]
    ELSE [runs EXCEPT ![r].i = @ + 1]

\* an exception reaches the catch of the sweep
Abort(r) == [runs EXCEPT ![r] = IdleRun]

\* no shutdown() has been called; failed: the bots whose stop was logged as
\* failed
NoShutdown == [pc |-> "none", bots |-> <<>>, i |-> 0, failed |-> {}]

\* a cron tick: the sweep's Bot.find has answered, and found bots
StartSweep(kind) ==
    /\ exited = FALSE
    /\ isRunning
    /\ \E r \in RunIds :
          /\ runs[r] = IdleRun
          /\ \A q \in RunIds : q < r => runs[q] # IdleRun
          /\ LET docs == FindDocs(store, Selected(kind, store, now))
             IN  /\ docs # <<>>
                 /\ runs' = [runs EXCEPT ![r] =
                               [kind |-> kind, bots |-> docs, i |-> 1, at |-> now]]
    /\ UNCHANGED <<servers, calls, store, creq, deleting, nDel, timers, exited,
                   now, advances, isRunning, shut>>

\* the timers that may be pending at once: MaxTimers, and one more with each
\* slot beyond MaxRuns
TimerRoom == MaxTimers + Cardinality(RunIds) - MaxRuns

\* metrics.errors is followed over its first values and across the restart
\* budget: an increment from e is taken when e is one of these
CountsFrom(e) == e < MaxErrors \/ e = RestartBudget - 1

AttemptTimer(doc) == [kind |-> "attempt", id |-> doc.id, errors |-> doc.errors]

CompleteTimer(doc) == [kind |-> "complete", id |-> doc.id, errors |-> doc.errors]

HealthyUpdateNoUptime(doc, t) == [lastActive |-> t, uptime |-> doc.uptime]

HealthyUpdate(doc, t) ==
    [lastActive |-> t, uptime |-> doc.uptime + HeartbeatSeconds]

UnhealthyUpdate(doc) == [status |-> "error", errors |-> doc.errors + 1]

\* performHeartbeatCheck: one turn of the loop
HeartbeatStep(r, probe, ok) ==
    /\ runs[r].kind = "heartbeat"
    /\ LET doc == CurrentDoc(r)
       IN  IF ~ok
           THEN /\ runs' = Abort(r)
                /\ UNCHANGED <<store, timers>>
           ELSE IF checkBotHealth(doc, now, probe)
           THEN /\ doc.uptime + HeartbeatSeconds <= MaxUptime
                /\ store' = SaveFields(store, doc.id, HealthyUpdate(doc, now))
                /\ runs' = Advance(r)
                /\ UNCHANGED timers
           ELSE /\ CountsFrom(doc.errors)
                /\ BagCardinality(timers) < TimerRoom
                /\ store' = SaveFields(store, doc.id, UnhealthyUpdate(doc))
                /\ timers' = timers (+)
                      SetToBag({AttemptTimer([doc EXCEPT !.errors = @ + 1])})
                /\ runs' = Advance(r)
    /\ UNCHANGED <<servers, calls, creq, deleting, nDel, exited, now, advances, isRunning, shut>>

restartBotTimerAlways(st, tm, doc, ok1, ok2) ==
    IF ok1
    THEN [store |-> SaveFields(st, doc.id, [status |-> "starting"]),
          timers |-> tm (+) SetToBag({CompleteTimer(doc)}),
          threw |-> FALSE]
    ELSE IF ok2
    THEN [store |-> SaveFields(st, doc.id,
                       [status |-> "error", errors |-> doc.errors + 1]),
          timers |-> tm (+) SetToBag({CompleteTimer(doc)}), threw |-> FALSE]
    ELSE [store |-> st, timers |-> tm, threw |-> TRUE]

restartBotSkipStarting(st, tm, doc, ok1, ok2) ==
    IF ok1
    THEN [store |-> st, timers |-> tm (+) SetToBag({CompleteTimer(doc)}),
          threw |-> FALSE]
    ELSE IF ok2
    THEN [store |-> SaveFields(st, doc.id,
                       [status |-> "error", errors |-> doc.errors + 1]),
          timers |-> tm, threw |-> FALSE]
    ELSE [store |-> st, timers |-> tm, threw |-> TRUE]

\* restartBot(bot): the store and the timers after it, and whether it threw.
\* ok1: the save of status starting; ok2: the save made in the catch.
restartBot(st, tm, doc, ok1, ok2) ==
    IF ok1
    THEN [store |-> SaveFields(st, doc.id, [status |-> "starting"]),
          timers |-> tm (+) SetToBag({CompleteTimer(doc)}),
          threw |-> FALSE]
    ELSE IF ok2
    THEN [store |-> SaveFields(st, doc.id,
                       [status |-> "error", errors |-> doc.errors + 1]),
          timers |-> tm, threw |-> FALSE]
    ELSE [store |-> st, timers |-> tm, threw |-> TRUE]

\* the bounds on the timers set and on the errors counted
RestartGuard(tm, doc, ok1, ok2) ==
    /\ ok1 => BagCardinality(tm) < TimerRoom
    /\ (~ok1 /\ ok2) => CountsFrom(doc.errors)

\* restartFailedBots: one turn of the loop
RestartStep(r, ok1, ok2) ==
    /\ runs[r].kind = "restart"
    /\ RestartGuard(timers, CurrentDoc(r), ok1, ok2)
    /\ LET res == restartBot(store, timers, CurrentDoc(r), ok1, ok2)
       IN  /\ store' = res.store
           /\ timers' = res.timers
           /\ runs' = IF res.threw THEN Abort(r) ELSE Advance(r)
    /\ UNCHANGED <<servers, calls, creq, deleting, nDel, exited, now, advances, isRunning, shut>>

stopBotResetsUptime(st, doc, ok) ==
    IF ok THEN SaveFields(st, doc.id, [status |-> "stopped", uptime |-> 0]) ELSE st

\* stopBot(bot): its save failing is caught inside stopBot
stopBot(st, doc, ok) ==
    IF ok THEN SaveFields(st, doc.id, [status |-> "stopped"]) ELSE st

\* cleanupOrphanedBots: one turn of the loop
CleanupStep(r, okStop, okDelete) ==
    /\ runs[r].kind = "cleanup"
    /\ LET doc == CurrentDoc(r)
       IN  IF okDelete
           THEN /\ store' = DeleteById(stopBot(store, doc, okStop), doc.id)
                /\ runs' = Advance(r)
           ELSE /\ store' = stopBot(store, doc, okStop)
                /\ runs' = Abort(r)
    /\ UNCHANGED <<servers, calls, creq, deleting, nDel, timers, exited, now, advances, isRunning, shut>>

\* a rejected promise nobody awaits: the unhandledRejection handler exits
Crash ==
    /\ exited' = TRUE
    /\ runs' = [r \in RunIds |-> IdleRun]
    /\ timers' = EmptyBag

\* the callback set by the heartbeat sweep, 5000 ms later: restartBot(bot)
AttemptFire(tm, ok1, ok2) ==
    /\ BagIn(tm, timers)
    /\ tm.kind = "attempt"
    /\ LET rest == timers (-) SetToBag({tm})
           res == restartBot(store, rest, tm, ok1, ok2)
       IN  /\ RestartGuard(rest, tm, ok1, ok2)
           /\ IF res.threw
              THEN Crash /\ store' = store
              ELSE /\ store' = res.store
                   /\ timers' = res.timers
                   /\ UNCHANGED <<runs, exited>>
    /\ UNCHANGED <<servers, calls, creq, deleting, nDel, now, advances, isRunning, shut>>

\* the callback set by restartBot, 3000 ms later
CompleteFire(tm, ok) ==
    /\ BagIn(tm, timers)
    /\ tm.kind = "complete"
    /\ IF ok
       THEN /\ store' = SaveFields(store, tm.id,
                           [status |-> "running", lastActive |-> now])
            /\ timers' = timers (-) SetToBag({tm})
            /\ UNCHANGED <<runs, exited>>
       ELSE Crash /\ store' = store
    /\ UNCHANGED <<servers, calls, creq, deleting, nDel, now, advances, isRunning, shut>>

\* shutdown(): isRunning is cleared at once; the find is awaited
ShutdownBegin ==
    /\ exited = FALSE
    /\ isRunning
    /\ shut = NoShutdown
    /\ isRunning' = FALSE
    /\ shut' = [shut EXCEPT !.pc = "find"]
    /\ UNCHANGED <<servers, calls, store, creq, deleting, nDel, runs, timers,
                   exited, now, advances>>

\* Bot.find({status: 'running'}) answers, or rejects: shutdown() then rejects
\* in the signal handler, which nothing awaits
ShutdownFind(ok) ==
    /\ exited = FALSE
    /\ shut.pc = "find"
    /\ IF ok
       THEN LET docs == FindDocs(store, Selected("heartbeat", store, now))
            IN  /\ shut' = [shut EXCEPT !.bots = docs, !.i = 1,
                                        !.pc = IF docs = <<>> THEN "close" ELSE "loop"]
                /\ UNCHANGED <<runs, timers, exited>>
       ELSE Crash /\ UNCHANGED shut
    /\ UNCHANGED <<servers, calls, store, creq, deleting, nDel, now, advances,
                   isRunning>>

\* the loop of shutdown(): stopBot on the document in turn
ShutdownStep(ok) ==
    /\ exited = FALSE
    /\ shut.pc = "loop"
    /\ LET doc == shut.bots[shut.i]
       IN  /\ store' = stopBot(store, doc, ok)
           /\ shut' = [shut EXCEPT
                         !.i = IF shut.i = Len(shut.bots) THEN @ ELSE @ + 1,
                         !.pc = IF shut.i = Len(shut.bots) THEN "close" ELSE @,
                         !.failed = IF ok THEN @ ELSE @ \cup {doc.id}]
    /\ UNCHANGED <<servers, calls, creq, deleting, nDel, runs, timers, exited,
                   now, advances, isRunning>>

ShutdownEndNoExit ==
    /\ exited = FALSE
    /\ shut.pc = "close"
    /\ shut' = [shut EXCEPT !.pc = "done"]
    /\ UNCHANGED <<servers, calls, store, creq, deleting, nDel, runs, timers,
                   exited, now, advances, isRunning>>

\* the connection is closed and the signal handler calls process.exit(0)
ShutdownEnd ==
    /\ exited = FALSE
    /\ shut.pc = "close"
    /\ shut' = [shut EXCEPT !.pc = "done"]
    /\ exited' = TRUE
    /\ runs' = [r \in RunIds |-> IdleRun]
    /\ timers' = EmptyBag
    /\ UNCHANGED <<servers, calls, store, creq, deleting, nDel, now, advances,
                   isRunning>>

\* time passes
Tick(d) ==
    /\ advances < MaxAdvances
    /\ now' = now + d
    /\ advances' = advances + 1
    /\ UNCHANGED <<servers, calls, store, creq, deleting, nDel, runs, timers, exited, isRunning, shut>>

----------------------------------------------------------------------------
(* The system: server and worker on an empty collection *)

InitSystem ==
    /\ store = <<>>
    /\ creq = [b \in BotIds |-> NoRequest]
    /\ deleting = EmptyBag
    /\ nDel = 0
    /\ runs = [r \in 1..MaxRuns |-> IdleRun]
    /\ timers = EmptyBag
    /\ exited = FALSE
    /\ now = 0
    /\ advances = 0
    /\ isRunning = TRUE
    /\ shut = NoShutdown

Init ==
    /\ servers = initializeServers
    /\ calls = <<>>
    /\ InitSystem

Next ==
    \/ \E b \in BotIds, type \in CreateTypes : CreateAssign(b, type)
    \/ \E b \in BotIds, ok \in BOOLEAN : CreateSave(b, ok)
    \/ \E b \in BotIds, ok \in BOOLEAN : CreateStarted(b, ok)
    \/ \E b \in BotIds : DeleteFind(b)
    \/ \E b \in BotIds, ok \in BOOLEAN : DeleteApply(b, ok)
    \/ \E kind \in SweepKinds : StartSweep(kind)
    \/ \E r \in RunIds, probe \in Probes, ok \in BOOLEAN : HeartbeatStep(r, probe, ok)
    \/ \E r \in RunIds, ok1, ok2 \in BOOLEAN : RestartStep(r, ok1, ok2)
    \/ \E r \in RunIds, okStop, okDelete \in BOOLEAN : CleanupStep(r, okStop, okDelete)
    \/ \E tm \in BagToSet(timers), ok1, ok2 \in BOOLEAN : AttemptFire(tm, ok1, ok2)
    \/ \E tm \in BagToSet(timers), ok \in BOOLEAN : CompleteFire(tm, ok)
    \/ \E d \in ClockSteps : Tick(d)

Spec == Init /\ [][Next]_vars

----------------------------------------------------------------------------
(* The system started on a collection that already holds bots *)

SeedServer(b) == ServerOrder[((b - 1) % Len(ServerOrder)) + 1]

\* the records the first bot may start as
FirstSeeds ==
    [type : BotTypes, status : {"running", "error"}, serverId : {SeedServer(1)},
     lastActive : {0, -10}, errors : {0, RestartBudget - 1}, uptime : {0}]

\* the records the second bot may start as
SecondSeeds ==
    [type : {"discord"}, status : {"running", "error"}, serverId : {SeedServer(2)},
     lastActive : {-10}, errors : {1}, uptime : {0}]

SeededStores ==
    {<<>>} \cup {<<x>> : x \in FirstSeeds}
           \cup {<<x, y>> : x \in FirstSeeds, y \in SecondSeeds}

\* the worker started on one of the given collections, with so many slots
InitWorker(stores, slots) ==
    /\ store \in {st \in stores : Len(st) <= MaxBots}
    /\ servers = [s \in ServerIds |->
                    [capacity |-> DefaultCapacity,
                     activeBots |-> Cardinality({b \in DOMAIN store :
                                                   store[b].serverId = s}),
                     status |-> "online"]]
    /\ calls = <<>>
    /\ creq = [b \in BotIds |->
                 IF b \in DOMAIN store THEN RequestAt("done") ELSE NoRequest]
    /\ deleting = EmptyBag
    /\ nDel = 0
    /\ runs = [r \in 1..slots |-> IdleRun]
    /\ timers = EmptyBag
    /\ exited = FALSE
    /\ now = 0
    /\ advances = 0
    /\ isRunning = TRUE
    /\ shut = NoShutdown

InitManager == InitWorker(SeededStores, MaxRuns)

\* the worker process alone: no HTTP request is made
NextManager ==
    \/ \E kind \in SweepKinds : StartSweep(kind)
    \/ \E r \in RunIds, probe \in Probes, ok \in BOOLEAN : HeartbeatStep(r, probe, ok)
    \/ \E r \in RunIds, ok1, ok2 \in BOOLEAN : RestartStep(r, ok1, ok2)
    \/ \E r \in RunIds, okStop, okDelete \in BOOLEAN : CleanupStep(r, okStop, okDelete)
    \/ \E tm \in BagToSet(timers), ok1, ok2 \in BOOLEAN : AttemptFire(tm, ok1, ok2)
    \/ \E tm \in BagToSet(timers), ok \in BOOLEAN : CompleteFire(tm, ok)
    \/ \E d \in ClockSteps : Tick(d)

SpecManager == InitManager /\ [][NextManager]_vars

\* the worker process with SIGTERM or SIGINT sent to it
NextSignals ==
    \/ NextManager
    \/ ShutdownBegin
    \/ \E ok \in BOOLEAN : ShutdownFind(ok)
    \/ \E ok \in BOOLEAN : ShutdownStep(ok)
    \/ ShutdownEnd

SpecSignals == InitManager /\ [][NextSignals]_vars

\* the worker on a collection of one bot, a cron tick being free to come
\* while an execution of a sweep is in progress
InitOverlap == InitWorker({<<x>> : x \in FirstSeeds}, MaxRuns + 1)

SpecOverlap == InitOverlap /\ [][NextManager]_vars

\* a timer that is set fires, unless the process has exited before
TimersFire ==
    /\ WF_vars(\E tm \in BagToSet(timers), ok1, ok2 \in BOOLEAN : AttemptFire(tm, ok1, ok2))
    /\ WF_vars(\E tm \in BagToSet(timers), ok \in BOOLEAN : CompleteFire(tm, ok))

SpecManagerFair == SpecManager /\ TimersFire

----------------------------------------------------------------------------
(* Direct calls on the exported botNetServer *)

AssignCall ==
    LET r == assignBot(servers)
    IN  /\ servers' = r.servers
        /\ calls' = Append(calls, [op |-> "assign", arg |-> Null, ret |-> r.ret])
        /\ UNCHANGED sysVars

ReleaseCall(id) ==
    /\ servers' = releaseBot(servers, id)
    /\ calls' = Append(calls, [op |-> "release", arg |-> id, ret |-> Null])
    /\ UNCHANGED sysVars

RegistryCall ==
    \/ AssignCall
    \/ \E id \in ServerIds \cup {UnknownServer} : ReleaseCall(id)

\* the documents, times and probe outcomes checkBotHealth is called with
HealthTypes == BotTypes \cup {"other"}

HealthDocs ==
    [type : HealthTypes, lastActive : {0, -1, -2, -4, -5, -6}, errors : {0, 2, 3},
     targetUrl : BOOLEAN]

HealthProbes ==
    Probes \cup {[threw |-> FALSE, status |-> 404], [threw |-> FALSE, status |-> 499],
                 [threw |-> FALSE, status |-> 503]}

\* botManager.checkBotHealth(bot), called directly
HealthCall(doc, probe) ==
    /\ Len(calls) < MaxHealthCalls
    /\ calls' = Append(calls, [op |-> "checkBotHealth",
                               arg |-> [doc |-> doc, at |-> now, probe |-> probe],
                               ret |-> checkBotHealth(doc, now, probe)])
    /\ UNCHANGED servers
    /\ UNCHANGED sysVars

InitHealth ==
    /\ servers = initializeServers
    /\ calls = <<>>
    /\ InitSystem

NextHealth == \E doc \in HealthDocs, probe \in HealthProbes : HealthCall(doc, probe)

SpecHealth == InitHealth /\ [][NextHealth]_vars

----------------------------------------------------------------------------
(* The reporting sweeps and the sink, called directly on a collection *)

\* the statuses a bot record takes: idle by default, the others as written
\* by the server and the worker
BotStatuses == {"idle", "starting", "running", "stopped", "error"}

CountStatus(st, s) == Cardinality({b \in DOMAIN st : st[b].status = s})

\* the stats object of performHealthCheck
HealthStats(st) ==
    [total |-> Cardinality(DOMAIN st),
     running |-> CountStatus(st, "running"),
     error |-> CountStatus(st, "error"),
     idle |-> CountStatus(st, "idle"),
     starting |-> CountStatus(st, "starting")]

HighErrorRateGE(stats) ==
    IF stats.total = 0 THEN FALSE ELSE 2 * stats.error >= stats.total

\* stats.error / stats.total > 0.5, where 0 / 0 is NaN and compares false
HighErrorRate(stats) ==
    IF stats.total = 0 THEN FALSE ELSE 2 * stats.error > stats.total

\* the POST to WEBHOOK_URL: made when the variable is set, and then it may fail
Delivered(hook, ok) == hook /\ ok

sendAlertThrows(hook, ok) == [threw |-> hook /\ ~ok, delivered |-> Delivered(hook, ok)]

sendAlert(hook, ok) == [threw |-> FALSE, delivered |-> Delivered(hook, ok)]

sendMetrics(hook, ok) == [threw |-> FALSE, delivered |-> Delivered(hook, ok)]

\* performHealthCheck(): what it passed to the sink, and whether it threw
performHealthCheck(st, okFind, hook, okAlert, okMetrics) ==
    IF ~okFind
    THEN [alerted |-> FALSE, metrics |-> <<>>, delivered |-> {}, threw |-> FALSE]
    ELSE LET stats == HealthStats(st)
             high == HighErrorRate(stats)
             a == sendAlert(hook, okAlert)
             m == sendMetrics(hook, okMetrics)
         IN  IF high /\ a.threw
             THEN [alerted |-> TRUE, metrics |-> <<>>, delivered |-> {},
                   threw |-> FALSE]
             ELSE [alerted |-> high,
                   metrics |-> IF m.threw THEN <<>> ELSE <<stats>>,
                   delivered |-> (IF high /\ a.delivered THEN {"alert"} ELSE {})
                                 \cup (IF m.delivered THEN {"metrics"} ELSE {}),
                   threw |-> FALSE]

RECURSIVE SumFn(_, _)
SumFn(f, S) ==
    IF S = {} THEN 0
    ELSE LET b == CHOOSE x \in S : TRUE IN f[b] + SumFn(f, S \ {b})

BotsOf(st, s) == {b \in DOMAIN st : st[b].serverId = s}

ServerEntryAllActive(st, s) ==
    LET S == BotsOf(st, s)
    IN  [totalBots |-> Cardinality(S),
         activeBots |-> Cardinality(S),
         totalRequests |-> SumFn([b \in S |-> st[b].requests], S),
         totalErrors |-> SumFn([b \in S |-> st[b].errors], S),
         averageUptime |-> [sum |-> SumFn([b \in S |-> st[b].uptime], S),
                            over |-> Cardinality(S)]]

\* serverMetrics[s] of collectMetrics; averageUptime is the quotient sum / over
ServerEntry(st, s) ==
    LET S == BotsOf(st, s)
    IN  [totalBots |-> Cardinality(S),
         activeBots |-> Cardinality({b \in S : st[b].status = "running"}),
         totalRequests |-> SumFn([b \in S |-> st[b].requests], S),
         totalErrors |-> SumFn([b \in S |-> st[b].errors], S),
         averageUptime |-> [sum |-> SumFn([b \in S |-> st[b].uptime], S),
                            over |-> Cardinality(S)]]

\* collectMetrics(): the serverMetrics object handed to storeMetrics
collectMetrics(st, okFind) ==
    IF ~okFind THEN [stored |-> <<>>, threw |-> FALSE]
    ELSE [stored |-> <<[s \in {st[b].serverId : b \in DOMAIN st} |-> ServerEntry(st, s)]>>,
          threw |-> FALSE]

ReportCall(entry) ==
    /\ calls' = <<entry>>
    /\ UNCHANGED servers
    /\ UNCHANGED sysVars

HealthCheckCall(okFind, hook, okAlert, okMetrics) ==
    ReportCall([op |-> "performHealthCheck",
                arg |-> [found |-> okFind, hook |-> hook, okAlert |-> okAlert,
                         okMetrics |-> okMetrics],
                ret |-> performHealthCheck(store, okFind, hook, okAlert, okMetrics)])

CollectCall(okFind) ==
    ReportCall([op |-> "collectMetrics",
                arg |-> [found |-> okFind, hook |-> FALSE, okAlert |-> FALSE,
                         okMetrics |-> FALSE],
                ret |-> collectMetrics(store, okFind)])

SinkCall(op, hook, ok) ==
    ReportCall([op |-> op,
                arg |-> [found |-> FALSE, hook |-> hook, okAlert |-> ok, okMetrics |-> ok],
                ret |-> IF op = "sendAlert" THEN sendAlert(hook, ok)
                        ELSE sendMetrics(hook, ok)])

\* the bot records the reporting sweeps are run on
ReportSeed(status, serverId, busy) ==
    [status |-> status, serverId |-> serverId,
     errors |-> IF busy THEN 2 ELSE 0,
     uptime |-> IF busy THEN 30 ELSE 0,
     requests |-> IF busy THEN 5 ELSE 0]

\* bots that have run carry metrics, the others the schema's zeros
ReportSeeds ==
    {ReportSeed(s, n, s \in {"running", "error"}) :
        s \in BotStatuses, n \in {"server-1", "server-2"}}

InitReports ==
    /\ \E n \in 0..MaxReportBots : store \in [1..n -> ReportSeeds]
    /\ servers = initializeServers
    /\ calls = <<>>
    /\ creq = [b \in BotIds |-> NoRequest]
    /\ deleting = EmptyBag
    /\ nDel = 0
    /\ runs = [r \in 1..MaxRuns |-> IdleRun]
    /\ timers = EmptyBag
    /\ exited = FALSE
    /\ now = 0
    /\ advances = 0
    /\ isRunning = TRUE
    /\ shut = NoShutdown

NextReports ==
    \/ \E okFind, hook, okAlert, okMetrics \in BOOLEAN :
          HealthCheckCall(okFind, hook, okAlert, okMetrics)
    \/ \E okFind \in BOOLEAN : CollectCall(okFind)
    \/ \E op \in {"sendAlert", "sendMetrics"}, hook, ok \in BOOLEAN : SinkCall(op, hook, ok)

SpecReports == InitReports /\ [][NextReports]_vars

\* the five sweeps startPeriodicTasks schedules
AllSweeps == SweepKinds \cup {"health", "metrics"}

\* the loop of a sweep from its i-th document on, every write succeeding:
\* the collection when the sweep returns
RECURSIVE SweepFrom(_, _, _, _, _, _)
SweepFrom(kind, st, docs, i, t, probe) ==
    IF i > Len(docs) THEN st
    ELSE LET doc == docs[i]
             next ==
                 CASE kind = "heartbeat" ->
                        IF checkBotHealth(doc, t, probe)
                        THEN SaveFields(st, doc.id, HealthyUpdate(doc, t))
                        ELSE SaveFields(st, doc.id, UnhealthyUpdate(doc))
                   [] kind = "restart" ->
                        restartBot(st, EmptyBag, doc, TRUE, TRUE).store
                   [] kind = "cleanup" ->
                        DeleteById(stopBot(st, doc, TRUE), doc.id)
         IN  SweepFrom(kind, next, docs, i + 1, t, probe)

\* one whole execution of a sweep at time t; performHealthCheck and
\* collectMetrics only read
RunSweep(kind, st, t, probe) ==
    IF kind \in SweepKinds
    THEN SweepFrom(kind, st, FindDocs(st, Selected(kind, st, t)), 1, t, probe)
    ELSE st

\* a sweep run once, and run again at once on what it left
SweepTwiceCall(kind, probe) ==
    /\ exited = FALSE
    /\ LET once == RunSweep(kind, store, now, probe)
       IN  calls' = <<[op |-> "sweepTwice",
                       arg |-> [kind |-> kind, probe |-> probe],
                       ret |-> [once |-> once,
                                twice |-> RunSweep(kind, once, now, probe)]]>>
    /\ UNCHANGED servers
    /\ UNCHANGED sysVars

NextTwice ==
    \/ \E kind \in AllSweeps, probe \in Probes : SweepTwiceCall(kind, probe)
    \/ \E d \in ClockSteps : Tick(d)

SpecTwice == InitManager /\ [][NextTwice]_vars

\* the HTTP handlers over a registry whose nodes may be offline
InitPool ==
    /\ servers \in [ServerIds ->
                      [capacity : {DefaultCapacity}, activeBots : {0},
                       status : {"online", "offline"}]]
    /\ calls = <<>>
    /\ InitSystem

NextPool ==
    \/ \E b \in BotIds, type \in CreateTypes : CreateAssign(b, type)
    \/ \E b \in BotIds, ok \in BOOLEAN : CreateSave(b, ok)
    \/ \E b \in BotIds, ok \in BOOLEAN : CreateStarted(b, ok)
    \/ \E b \in BotIds : DeleteFind(b)
    \/ \E b \in BotIds, ok \in BOOLEAN : DeleteApply(b, ok)

SpecPool == InitPool /\ [][NextPool]_vars

\* any registry the assign and release operations may be applied to
InitRegistry ==
    /\ servers \in [ServerIds ->
                      [capacity : Capacities,
                       activeBots : 0..MaxLoad,
                       status : Statuses]]
    /\ calls = <<>>
    /\ InitSystem

NextRegistry == Len(calls) < MaxCalls /\ RegistryCall

SpecRegistry == InitRegistry /\ [][NextRegistry]_vars

\* the registry as constructed
InitScenario ==
    /\ servers = initializeServers
    /\ calls = <<>>
    /\ InitSystem

NextScenario == Len(calls) < MaxScenarioCalls /\ RegistryCall

SpecScenario == InitScenario /\ [][NextScenario]_vars

----------------------------------------------------------------------------
(* Properties of the node registry *)

LastCall == calls[Len(calls)]

\* the step is a direct call of the given operation
IsCall(op) == Len(calls') = Len(calls) + 1 /\ calls'[Len(calls')].op = op

Pos(s) == CHOOSE i \in 1..Len(ServerOrder) : ServerOrder[i] = s

Online(srv) == {s \in ServerIds : srv[s].status = "online"}

\* activeBots / capacity of a is at most that of b
RatioLE(srv, a, b) ==
    srv[a].activeBots * srv[b].capacity <= srv[b].activeBots * srv[a].capacity

FirstMinOnline(srv, r) ==
    /\ r \in Online(srv)
    /\ \A s \in Online(srv) :
          /\ RatioLE(srv, r, s)
          /\ RatioLE(srv, s, r) => Pos(r) <= Pos(s)

AllOnlineFull(srv) ==
    /\ Online(srv) # {}
    /\ \A s \in Online(srv) : srv[s].activeBots >= srv[s].capacity

\* C1: assign() returns the online node of minimal activeBots/capacity ratio,
\* the first in insertion order among those tied at the minimum, and never a
\* node that is not online.
C1_AssignFirstMinOnline ==
    [][IsCall("assign") =>
          LET r == calls'[Len(calls')].ret
          IN  /\ Online(servers) # {} => FirstMinOnline(servers, r)
              /\ r # Null => servers[r].status = "online"]_vars

\* an assign that passed over an offline node of lower ratio and took the
\* first of two online nodes tied at the minimum
C1_Witness ==
    /\ calls = <<[op |-> "assign", arg |-> Null, ret |-> "server-2"]>>
    /\ servers["server-1"].status = "offline"
    /\ servers["server-1"].activeBots = 0
    /\ servers["server-2"].capacity = 1 /\ servers["server-2"].activeBots = 2
    /\ servers["server-3"].status = "online"
    /\ servers["server-3"].capacity = 1 /\ servers["server-3"].activeBots = 1

\* C2: activeBots >= 0 for every node after any sequence of assign and
\* release calls, unmatched and repeated releases included.
C2_ActiveBotsNonNegative ==
    \A s \in ServerIds : servers[s].activeBots >= 0

\* C5: assign() returns none exactly when no node is online; with every
\* online node at or over its capacity it still returns a node and takes that
\* node's activeBots beyond its capacity.
C5_AssignNoneIffNoOnline ==
    [][IsCall("assign") =>
          LET r == calls'[Len(calls')].ret
          IN  /\ r = Null <=> Online(servers) = {}
              /\ AllOnlineFull(servers) =>
                    /\ r \in Online(servers)
                    /\ servers'[r].activeBots = servers[r].activeBots + 1
                    /\ servers'[r].activeBots > servers'[r].capacity]_vars

\* an assign made with every online node full, which left the node it
\* returned over its capacity
C5_Witness ==
    /\ Len(calls) = 1
    /\ LastCall.op = "assign"
    /\ LastCall.ret # Null
    /\ servers[LastCall.ret].activeBots > servers[LastCall.ret].capacity
    /\ \A s \in Online(servers) : servers[s].activeBots >= servers[s].capacity
    /\ Cardinality(Online(servers)) = 2

\* C6: release of a known node id lowers that node's activeBots by exactly
\* one and changes nothing else; release of an unknown id changes nothing.
C6_ReleaseFrame ==
    [][IsCall("release") =>
          LET id == calls'[Len(calls')].arg
          IN  /\ DOMAIN servers' = DOMAIN servers
              /\ \A s \in ServerIds :
                    /\ servers'[s].capacity = servers[s].capacity
                    /\ servers'[s].status = servers[s].status
                    /\ servers'[s].activeBots =
                          servers[s].activeBots - (IF s = id THEN 1 ELSE 0)]_vars

\* a release of a known node at load zero followed by one of an unknown id
C6_Witness ==
    /\ Len(calls) = 2
    /\ calls[1].op = "release" /\ calls[1].arg = "server-2"
    /\ calls[2].op = "release" /\ calls[2].arg = UnknownServer
    /\ servers["server-2"].activeBots = -1

FirstAssigns(n) ==
    /\ Len(calls) >= n
    /\ \A i \in 1..n : calls[i].op = "assign"

\* C7: from three online nodes of capacity 100 and load 0, three successive
\* assigns return three distinct node ids and a fourth returns the first node
\* of the registry.
C7_Scenario ==
    /\ FirstAssigns(3) =>
          /\ \A i \in 1..3 : calls[i].ret \in ServerIds
          /\ \A i, j \in 1..3 : i # j => calls[i].ret # calls[j].ret
    /\ FirstAssigns(4) => calls[4].ret = ServerOrder[1]

C7_Witness == Len(calls) = 4 /\ FirstAssigns(4)

----------------------------------------------------------------------------
(* Properties of the server's bot routes *)

BotsOn(s) == {b \in DOMAIN store : store[b].serverId = s}

\* no POST /api/bots and no DELETE /api/bots/:id is between its first and its
\* last step
NoRequestInFlight ==
    /\ \A b \in BotIds : creq[b].pc # "saving"
    /\ deleting = EmptyBag

\* C3: with no create or delete in flight, every node's activeBots is the
\* number of bot records whose serverId is that node.
C3_LoadMatchesStore ==
    NoRequestInFlight =>
        \A s \in ServerIds : servers[s].activeBots = Cardinality(BotsOn(s))

RECURSIVE SumLoad(_, _)
SumLoad(srv, i) ==
    IF i > Len(ServerOrder) THEN 0
    ELSE srv[ServerOrder[i]].activeBots + SumLoad(srv, i + 1)

\* every increment and every decrement made so far is in the counters
LoadConserved ==
    SumLoad(servers, 1) = Cardinality({b \in BotIds : creq[b].pc # "new"}) - nDel

\* C4: assign() selects and increments in one step: the node a creation
\* request obtains is the first online node of minimal ratio in the registry as
\* it stands when the increment is applied, whatever creations and deletions
\* are in flight, and no increment is lost.
C4_AssignAtomic ==
    /\ []LoadConserved
    /\ [][\A b \in BotIds :
             (creq[b].pc = "new" /\ creq'[b].pc = "saving") =>
                 LET s == creq'[b].serverId
                 IN  /\ FirstMinOnline(servers, s)
                     /\ servers' = [servers EXCEPT ![s].activeBots = @ + 1]]_vars

\* two creations in flight at once, on different nodes, beside a deletion
C4_Witness ==
    /\ creq[1].pc = "saving"
    /\ creq[2].pc = "saving"
    /\ creq[1].serverId # creq[2].serverId

----------------------------------------------------------------------------
(* Properties of the heartbeat and restart sweeps *)

ChatOrCustom == {"discord", "telegram", "custom"}

\* the step ends the execution r of the sweep, the process staying up
SweepEnds(r, kind) ==
    /\ runs[r].kind = kind
    /\ runs'[r] = IdleRun
    /\ exited' = FALSE

\* the document was found running with lastActive 10 minutes before the sweep
StaleAtFind(r, doc) ==
    /\ doc.type \in ChatOrCustom
    /\ runs[r].at - doc.lastActive >= 10

MarkedError(st, doc) ==
    /\ st[doc.id].status = "error"
    /\ st[doc.id].errors = doc.errors + 1

\* C8: when a heartbeat sweep ends, every bot it found running, of type
\* discord, telegram or custom, with lastActive 10 minutes back, is in error
\* with metrics.errors one higher (a bot whose own write failed, or which is
\* gone, aside), and the restart attempt is set only with the error persisted.
C8_StaleMarkedError ==
    [][/\ \A r \in RunIds : SweepEnds(r, "heartbeat") =>
             \A k \in 1..Len(runs[r].bots) :
                 LET doc == runs[r].bots[k]
                 IN  (/\ StaleAtFind(r, doc)
                      /\ Exists(store', doc.id)
                      /\ k # runs[r].i \/ store' # store)
                     => MarkedError(store', doc)
       /\ \A tm \in BagToSet(timers') :
             (tm.kind = "attempt" /\ ~BagIn(tm, timers) /\ Exists(store', tm.id)) =>
                 /\ store'[tm.id].status = "error"
                 /\ store'[tm.id].errors = tm.errors]_vars

\* the step is a turn of the heartbeat loop of execution r
HeartbeatTurn(r) == runs[r].kind = "heartbeat" /\ runs'[r] # runs[r] /\ exited' = FALSE

HealthyWrite(st, doc, t) ==
    [st EXCEPT ![doc.id] =
        [@ EXCEPT !.lastActive = t, !.uptime = doc.uptime + HeartbeatSeconds]]

\* C9: the write the heartbeat sweep makes for a bot it evaluated as healthy
\* sets lastActive to the current time and metrics.uptime to the value read
\* plus the sweep interval in seconds, and changes nothing else: not the
\* status, not metrics.errors, no other bot; and no restart is set for it.
C9_HealthyRefreshed ==
    [][\A r \in RunIds : HeartbeatTurn(r) =>
          LET doc == CurrentDoc(r)
          IN  /\ (store' # store /\ timers' = timers) =>
                    /\ Exists(store, doc.id)
                    /\ store' = HealthyWrite(store, doc, now)
              /\ (doc.type # "web" /\ checkBotHealth(doc, now, ProbeOk)) =>
                    /\ timers' = timers
                    /\ store' \in {store, HealthyWrite(store, doc, now)}]_vars

\* a bot whose lastActive and uptime a heartbeat sweep has refreshed after
\* the clock moved
C9_Witness ==
    /\ now > 0
    /\ \E b \in DOMAIN store :
          /\ store[b].status = "running"
          /\ store[b].lastActive = now
          /\ store[b].uptime = HeartbeatSeconds

\* C10: when a restart sweep ends, no bot it selected (status error, errors
\* under the budget) is left in error as it was found, and no turn of the
\* sweep changes a bot it did not select.
C10_RestartsAllUnderBudget ==
    [][\A r \in RunIds :
          /\ SweepEnds(r, "restart") =>
                \A k \in 1..Len(runs[r].bots) :
                    LET doc == runs[r].bots[k]
                    IN  (k # runs[r].i /\ Exists(store', doc.id)) =>
                            ~(/\ store'[doc.id].status = "error"
                              /\ store'[doc.id].errors = doc.errors)
          /\ (runs[r].kind = "restart" /\ runs'[r] # runs[r] /\ exited' = FALSE) =>
                \A b \in DOMAIN store :
                    (\A k \in 1..Len(runs[r].bots) : runs[r].bots[k].id # b) =>
                        (Exists(store', b) /\ store'[b] = store[b])]_vars

----------------------------------------------------------------------------
(* Properties of the restart operation *)

\* C11: no step of the worker moves a bot that is in error with metrics.errors
\* at or over the restart budget to starting or running.
C11_OverBudgetStaysError ==
    [][\A b \in DOMAIN store :
          (/\ store[b].status = "error"
           /\ store[b].errors >= RestartBudget
           /\ Exists(store', b))
          => store'[b].status \notin {"starting", "running"}]_vars

CompletionPending(b) ==
    \E tm \in BagToSet(timers) : tm.kind = "complete" /\ tm.id = b

CompletionSet(b) ==
    \E tm \in BagToSet(timers') :
        tm.kind = "complete" /\ tm.id = b /\ ~BagIn(tm, timers)

CompletionDone(b) ==
    \E tm \in BagToSet(timers) :
        /\ tm.kind = "complete" /\ tm.id = b
        /\ timers' = timers (-) SetToBag({tm})
        /\ exited' = FALSE

\* C12: the step that begins a restart leaves the bot stored as starting; the
\* completion that follows it, its write succeeding, leaves the bot stored as
\* running with lastActive the time of the completion; and a completion that
\* is pending does come (unless its write fails, which ends the process, or
\* the bot is deleted).
C12_RestartStartsThenRuns ==
    /\ [][\A b \in DOMAIN store :
             /\ (CompletionSet(b) /\ Exists(store', b)) =>
                    store'[b].status = "starting"
             /\ (CompletionDone(b) /\ Exists(store', b)) =>
                    /\ store'[b].status = "running"
                    /\ store'[b].lastActive = now]_vars
    /\ \A b \in BotIds :
          CompletionPending(b) ~>
              \/ exited
              \/ ~Exists(store, b)
              \/ store[b].status = "running" /\ store[b].lastActive = now

\* a bot a restart has brought to running after the clock moved
C12_Witness ==
    /\ now > 0
    /\ exited = FALSE
    /\ \E b \in DOMAIN store :
          /\ store[b].status = "running"
          /\ store[b].lastActive = now
          /\ store[b].uptime = 0

\* the step is the completion of b's restart with its write rejected
CompletionFailed(b) ==
    /\ CompletionPending(b)
    /\ \A tm \in BagToSet(timers) : tm.kind = "complete"
    /\ exited = FALSE
    /\ exited' = TRUE

\* C13: a completion whose write fails leaves the bot in error with
\* metrics.errors one higher, and a bot whose completion is pending does not
\* stay in starting forever.
C13_FailedCompletionDegrades ==
    /\ [][\A b \in DOMAIN store :
             CompletionFailed(b) =>
                 /\ Exists(store', b)
                 /\ store'[b].status = "error"
                 /\ store'[b].errors = store[b].errors + 1]_vars
    /\ \A b \in BotIds :
          CompletionPending(b) ~> (~Exists(store, b) \/ store[b].status # "starting")

\* the step is a turn of the restart sweep r, which calls restartBot on the
\* document in turn
RestartTurn(r) == runs[r].kind = "restart" /\ runs'[r] # runs[r] /\ exited' = FALSE

\* the step is the firing of the attempt timer tm, restartBot not throwing
AttemptTurn(tm) ==
    /\ tm.kind = "attempt"
    /\ runs' = runs
    /\ exited' = FALSE
    /\ timers' \in {timers (-) SetToBag({tm}),
                    (timers (-) SetToBag({tm})) (+) SetToBag({CompleteTimer(tm)})}

ErrorWrite(st, doc) ==
    [st EXCEPT ![doc.id] = [@ EXCEPT !.status = "error", !.errors = doc.errors + 1]]

StartingWrite(st, doc) == [st EXCEPT ![doc.id] = [@ EXCEPT !.status = "starting"]]

\* restartBot(doc) has set no completion, and the stored bot is in error with
\* metrics.errors one over the value restartBot was given
FailedBeginRecorded(doc, rest) ==
    (timers' = rest /\ Exists(store, doc.id)) => store' = ErrorWrite(store, doc)

\* the same, or nothing was written because the write in the catch failed
\* too; and where a completion is set the bot is stored as starting
FailedBeginHandled(doc, rest) ==
    \/ /\ timers' = rest
       /\ store' \in {store} \cup
               (IF Exists(store, doc.id) THEN {ErrorWrite(store, doc)} ELSE {})
    \/ /\ timers' = rest (+) SetToBag({CompleteTimer(doc)})
       /\ store' = IF Exists(store, doc.id) THEN StartingWrite(store, doc) ELSE store

\* C14 as stated: a call of restartBot that sets no completion (its first
\* write failed) leaves the bot stored in error with metrics.errors exactly one
\* higher.
C14_FailedBeginPersistsError ==
    [][/\ \A r \in RunIds :
             RestartTurn(r) => FailedBeginRecorded(CurrentDoc(r), timers)
       /\ \A tm \in BagToSet(timers) :
             AttemptTurn(tm) => FailedBeginRecorded(tm, timers (-) SetToBag({tm}))]_vars

\* C14 amended: a call of restartBot whose first write failed sets no
\* completion and writes status error with metrics.errors exactly one higher
\* when the write made in its catch succeeds, and writes nothing when that
\* write fails too.
C14_FailedBeginSetsNoCompletion ==
    [][/\ \A r \in RunIds :
             RestartTurn(r) => FailedBeginHandled(CurrentDoc(r), timers)
       /\ \A tm \in BagToSet(timers) :
             AttemptTurn(tm) => FailedBeginHandled(tm, timers (-) SetToBag({tm}))]_vars

\* the first bot, found in error with no errors counted, after a restart
\* whose first write failed
C14_Witness ==
    /\ exited = FALSE
    /\ timers = EmptyBag
    /\ Exists(store, 1)
    /\ store[1].status = "error"
    /\ store[1].errors = 1

\* C15: restartBot never raises: no restart sweep is cut short before the last
\* document it selected, and the firing of an attempt timer never ends the
\* process.
C15_RestartNeverThrows ==
    [][/\ \A r \in RunIds :
             (runs[r].kind = "restart" /\ runs'[r] = IdleRun /\ exited' = FALSE)
             => runs[r].i = Len(runs[r].bots)
       /\ (/\ exited = FALSE
           /\ timers # EmptyBag
           /\ \A tm \in BagToSet(timers) : tm.kind = "attempt")
          => exited' = FALSE]_vars

\* C16: no step of the worker sets a bot stored as stopped to running, and no
\* step brings back a record that was deleted.
C16_CompletionRespectsStored ==
    [][/\ \A b \in DOMAIN store :
             (store[b].status = "stopped" /\ Exists(store', b)) =>
                 store'[b].status # "running"
       /\ DOMAIN store' \subseteq DOMAIN store]_vars

----------------------------------------------------------------------------
(* Properties of the orphan sweep *)

\* the step is a turn of the orphan sweep r
CleanupTurn(r) == runs[r].kind = "cleanup" /\ runs'[r] # runs[r] /\ exited' = FALSE

ReleasedOnce(srv, s) == [srv EXCEPT ![s].activeBots = @ - 1]

\* C17: when an orphan sweep ends, every bot it selected (lastActive over 24
\* hours back, status error or idle) is gone from the store (a bot whose own
\* delete was rejected aside), and each turn that deletes a bot takes one from
\* the activeBots of the bot's node.
C17_OrphansDeletedAndReleased ==
    [][\A r \in RunIds :
          /\ SweepEnds(r, "cleanup") =>
                \A k \in 1..Len(runs[r].bots) :
                    k # runs[r].i => ~Exists(store', runs[r].bots[k].id)
          /\ CleanupTurn(r) =>
                \A b \in DOMAIN store \ DOMAIN store' :
                    servers' = ReleasedOnce(servers, store[b].serverId)]_vars

\* the bot is one the orphan sweep is for, at time t
Orphan(rec, t) ==
    /\ rec.lastActive < t - OrphanAge
    /\ rec.status \in {"error", "idle"}

----------------------------------------------------------------------------
(* Properties of shutdown and of the sweeps' handling of failures *)

\* C19: when shutdown() completes, every bot it found running is stored as
\* stopped (a bot that is gone, or whose stop was logged as failed, aside);
\* and once shutdown() has begun no execution of a sweep starts.
C19_ShutdownStopsRunning ==
    [][/\ (shut.pc = "close" /\ shut'.pc = "done") =>
             \A k \in 1..Len(shut.bots) :
                 LET id == shut.bots[k].id
                 IN  (Exists(store', id) /\ id \notin shut.failed) =>
                         store'[id].status = "stopped"
       /\ ~isRunning =>
             \A r \in RunIds : runs[r] = IdleRun => runs'[r] = IdleRun]_vars

\* C20: an execution of the heartbeat, orphan or restart sweep does not end
\* before the last bot it selected has had its turn.
C20_SweepReachesEveryBot ==
    [][\A r \in RunIds :
          (runs[r].kind \in SweepKinds /\ runs'[r] = IdleRun /\ exited' = FALSE)
          => runs[r].i = Len(runs[r].bots)]_vars

\* C21: whatever store write or probe fails in a sweep, in a restart attempt
\* or in a restart completion, the worker process stays up (no signal being
\* sent to it).
C21_ControllerStaysUp == exited = FALSE

\* C22: no two executions of the same sweep are in progress at once.
C22_NoSelfOverlap ==
    \A r, q \in RunIds :
        (r # q /\ runs[r].kind # "idle") => runs[r].kind # runs[q].kind

\* the changes of status the lifecycle allows
LifecycleEdges ==
    {<<"idle", "running">>, <<"starting", "running">>, <<"running", "error">>,
     <<"error", "starting">>, <<"starting", "error">>, <<"running", "stopped">>}

\* C23: every change of a stored status is an edge of the lifecycle (the stop
\* the orphan sweep makes on the bot it is about to delete aside).
C23_LifecycleGraph ==
    [][\A b \in DOMAIN store :
          (/\ Exists(store', b)
           /\ store'[b].status # store[b].status
           /\ \A r \in RunIds : ~CleanupTurn(r))
          => <<store[b].status, store'[b].status>> \in LifecycleEdges]_vars

----------------------------------------------------------------------------
(* Properties of the health evaluator *)

HealthCalls == {i \in 1..Len(calls) : calls[i].op = "checkBotHealth"}

Age(c) == c.arg.at - c.arg.doc.lastActive

\* C24: for a bot not of type web the verdict is: discord or telegram, age
\* under 2 minutes; monitor, metrics.errors under 3; custom or any type not
\* listed, age under 5 minutes.
C24_VerdictByType ==
    \A i \in HealthCalls :
        LET c == calls[i]
            type == c.arg.doc.type
        IN  /\ type \in {"discord", "telegram"} => (c.ret <=> Age(c) < 2)
            /\ type = "monitor" => (c.ret <=> c.arg.doc.errors < 3)
            /\ type \notin {"discord", "telegram", "monitor", "web"} =>
                   (c.ret <=> Age(c) < 5)

\* a bot of a type not listed, 4 minutes old, found healthy
C24_Witness ==
    \E i \in HealthCalls :
        /\ calls[i].arg.doc.type = "other"
        /\ Age(calls[i]) = 4
        /\ calls[i].ret = TRUE

Answered(probe, limit) == ~probe.threw /\ probe.status < limit

\* C25 as stated: a web bot is healthy iff a probe of its config.targetUrl
\* is made and answers with a status under 500.
C25_WebHealthyIffProbeOk ==
    \A i \in HealthCalls :
        LET c == calls[i]
        IN  c.arg.doc.type = "web" =>
                (c.ret <=> (c.arg.doc.targetUrl /\ Answered(c.arg.probe, 500)))

\* C25 amended: a web bot with a config.targetUrl is healthy iff the probe
\* answers with a status under 500, an exception making it unhealthy; a web
\* bot without a config.targetUrl is healthy; the verdict is a boolean.
C25_WebVerdict ==
    \A i \in HealthCalls :
        LET c == calls[i]
        IN  c.arg.doc.type = "web" =>
                /\ c.ret \in BOOLEAN
                /\ c.arg.doc.targetUrl => (c.ret <=> Answered(c.arg.probe, 500))
                /\ ~c.arg.doc.targetUrl => c.ret

\* a web bot with a targetUrl whose probe raised, found unhealthy, and not
\* by its age
C25_Witness ==
    \E i \in HealthCalls :
        /\ calls[i].arg.doc.type = "web"
        /\ calls[i].arg.doc.targetUrl
        /\ calls[i].arg.probe.threw
        /\ Age(calls[i]) = 0
        /\ calls[i].ret = FALSE

----------------------------------------------------------------------------
(* The reporting sweeps *)

ReportCalls(op) == {i \in DOMAIN calls : calls[i].op = op}

StatusCount(s) == Cardinality({b \in DOMAIN store : store[b].status = s})

\* C26: the aggregate health sweep alerts exactly when the store holds a bot
\* and more than half of the bots have status error; on an empty store it
\* neither alerts nor fails; it always hands the counts to the sink.
C26_AlertIffErrorMajority ==
    \A i \in ReportCalls("performHealthCheck") :
        calls[i].arg.found =>
            LET ret == calls[i].ret
                total == Cardinality(DOMAIN store)
            IN  /\ ret.alerted = (total >= 1 /\ 2 * StatusCount("error") > total)
                /\ ~ret.threw
                /\ Len(ret.metrics) = 1
                /\ ret.metrics[1].total = total
                /\ \A s \in {"running", "error", "idle", "starting"} :
                       ret.metrics[1][s] = StatusCount(s)

C26_Witness ==
    \E i \in ReportCalls("performHealthCheck") :
        /\ calls[i].arg.found
        /\ calls[i].ret.alerted
        /\ Cardinality(DOMAIN store) = 3
        /\ StatusCount("error") = 2

MetricsAsDescribed(stored) ==
    /\ DOMAIN stored = {store[b].serverId : b \in DOMAIN store}
    /\ \A s \in DOMAIN stored :
          LET S == {b \in DOMAIN store : store[b].serverId = s}
              e == stored[s]
          IN  /\ e.totalBots = Cardinality(S)
              /\ e.activeBots = Cardinality({b \in S : store[b].status = "running"})
              /\ e.totalRequests = SumFn([b \in S |-> store[b].requests], S)
              /\ e.totalErrors = SumFn([b \in S |-> store[b].errors], S)
              /\ e.averageUptime.sum = SumFn([b \in S |-> store[b].uptime], S)
              /\ e.averageUptime.over = e.totalBots

\* C27: the metrics sweep produces one entry per node id that some bot refers
\* to, holding the node's bot count, running count, request and error sums
\* and uptime sum over bot count; the sweep changes no bot record.
C27_MetricsPerNode ==
    /\ [](\A i \in ReportCalls("collectMetrics") :
            calls[i].arg.found =>
                /\ Len(calls[i].ret.stored) = 1
                /\ MetricsAsDescribed(calls[i].ret.stored[1]))
    /\ [][(ReportCalls("collectMetrics")' # {}) => store' = store]_vars

C27_Witness ==
    \E i \in ReportCalls("collectMetrics") :
        /\ calls[i].arg.found
        /\ Len(calls[i].ret.stored) = 1
        /\ \E s \in DOMAIN calls[i].ret.stored[1] :
              LET e == calls[i].ret.stored[1][s]
              IN  /\ e.totalBots = 3
                  /\ e.activeBots = 1
                  /\ e.averageUptime.sum = 2 * HeartbeatSeconds

\* C29: sendMetrics and sendAlert complete normally whether no endpoint is
\* configured or the delivery fails, and the health sweep that called them
\* goes on to hand over its counts.
C29_SinkNeverThrows ==
    /\ \A i \in ReportCalls("sendAlert") \cup ReportCalls("sendMetrics") :
          ~calls[i].ret.threw
    /\ \A i \in ReportCalls("performHealthCheck") :
          (calls[i].arg.found /\ calls[i].ret.alerted) =>
              /\ ~calls[i].ret.threw
              /\ Len(calls[i].ret.metrics) = 1

C29_Witness ==
    \E i \in ReportCalls("performHealthCheck") :
        /\ calls[i].arg.found
        /\ calls[i].arg.hook
        /\ ~calls[i].arg.okAlert
        /\ calls[i].ret.alerted
        /\ "alert" \notin calls[i].ret.delivered
        /\ Len(calls[i].ret.metrics) = 1

----------------------------------------------------------------------------
(* The stop operation *)

\* a step of shutdown's loop: stopBot on the bot the loop is at
StopTurn == shut.pc = "loop" /\ shut' # shut

StopWritten(b) == b \notin shut'.failed

\* C28: stopBot sets the bot's status to stopped and changes nothing else:
\* serverId, lastActive and metrics stay, no record is deleted or created,
\* the other records stay, and no node's activeBots changes.
C28_StopOnlySetsStatus ==
    [][StopTurn =>
          LET b == shut.bots[shut.i].id
          IN  /\ DOMAIN store' = DOMAIN store
              /\ \A c \in DOMAIN store \ {b} : store'[c] = store[c]
              /\ (Exists(store, b) /\ StopWritten(b)) =>
                     store'[b] = [store[b] EXCEPT !.status = "stopped"]
              /\ servers' = servers]_vars

C28_Witness ==
    /\ shut.pc = "close"
    /\ \E k \in 1..Len(shut.bots) :
          LET b == shut.bots[k].id
          IN  /\ b \notin shut.failed
              /\ Exists(store, b)
              /\ store[b].status = "stopped"
              /\ store[b].uptime > 0
              /\ servers[store[b].serverId].activeBots > 0

----------------------------------------------------------------------------
(* Creation with no node available *)

\* the step takes creation request b from its start past assignBot
CreateTurn(b) == creq[b].pc = "new" /\ creq'[b].pc # "new"

\* C30: a creation request made when assignBot returns null is answered 503
\* (no available servers), creates no bot record, and leaves every node's
\* activeBots as it was.
C30_NoNodeRejected ==
    /\ [][\A b \in BotIds :
            (CreateTurn(b) /\ assignBot(servers).ret = Null) =>
                /\ creq'[b].pc = "done"
                /\ creq'[b].res = 503
                /\ store' = store
                /\ \A s \in ServerIds :
                      servers'[s].activeBots = servers[s].activeBots]_vars
    /\ [](\A b \in BotIds : creq[b].res = 503 => ~Exists(store, b))

C30_Witness ==
    /\ \E b \in BotIds : creq[b].res = 503
    /\ \A s \in ServerIds : servers[s].status = "offline"
    /\ store = <<>>

----------------------------------------------------------------------------
(* Sweeps run twice *)

\* C31: each of the five sweeps run twice in immediate succession, the clock
\* unchanged and nothing in between, leaves the bot store as running it once
\* does.
C31_SweepIdempotent ==
    \A i \in ReportCalls("sweepTwice") : calls[i].ret.twice = calls[i].ret.once

----------------------------------------------------------------------------
(* Creation and deletion against the registry *)

\* the step is the failing save of creation request b
SaveFails(b) == creq[b].pc = "saving" /\ creq'[b].res = 500

\* C32: when the save of a creation request that holds a node fails, the
\* request fails and the slot assign took on that node is given back.
C32_FailedSaveGivesBackSlot ==
    [][\A b \in BotIds :
          SaveFails(b) =>
              /\ ~Exists(store', b)
              /\ servers' = releaseBot(servers, creq[b].serverId)]_vars

\* the step is a DELETE request for bot b reaching its releaseBot
ReleaseTurn(b) == CopiesIn(b, deleting') > CopiesIn(b, deleting)

\* C33: under any interleaving of delete requests for one bot id, the bot's
\* node is decremented once for that bot: a request releases the slot only
\* when no other request for the bot has released it and not yet deleted.
C33_ReleasedAtMostOnce ==
    [][\A b \in BotIds : ReleaseTurn(b) => ~BagIn(b, deleting)]_vars

----------------------------------------------------------------------------
(* Restarts scheduled twice *)

\* the restart completions pending for bot b
PendingCompletions(b) ==
    LET S == {tm \in BagToSet(timers) : tm.kind = "complete" /\ tm.id = b}
    IN  SumFn([tm \in S |-> CopiesIn(tm, timers)], S)

\* the step is the firing of the restart attempt tm the heartbeat sweep set
AttemptFires(tm) ==
    /\ tm.kind = "attempt"
    /\ CopiesIn(tm, timers') < CopiesIn(tm, timers)
    /\ exited' = FALSE

\* C34: a restart attempt scheduled by a heartbeat failure does not restart
\* a bot that has been restarted meanwhile: it leaves at most one restart
\* completion pending for the bot, and does not put a bot that is running
\* again back to starting.
C34_OneCompletionPending ==
    [][\A tm \in BagToSet(timers) :
          AttemptFires(tm) =>
              /\ PendingCompletions(tm.id)' <= 1
              /\ (Exists(store, tm.id) /\ store[tm.id].status = "running") =>
                     store'[tm.id].status # "starting"]_vars

----------------------------------------------------------------------------
(* The error count *)

\* C35: metrics.errors of a bot never decreases while the bot exists: no
\* sweep, restart, stop or shutdown lowers or resets it.
C35_ErrorsNeverDecrease ==
    [][\A b \in DOMAIN store :
          Exists(store', b) => store'[b].errors >= store[b].errors]_vars

----------------------------------------------------------------------------
(* Heartbeat after heartbeat *)

\* bot b is running and an earlier heartbeat sweep has found it healthy, its
\* lastActive refreshed less than 2 minutes ago
RefreshedLately(b) ==
    /\ Exists(store, b)
    /\ store[b].status = "running"
    /\ store[b].uptime > 0
    /\ now - store[b].lastActive < ChatTimeout

\* C36: a running discord, telegram or custom bot that a heartbeat sweep has
\* found healthy is found healthy again by a heartbeat sweep that checks it
\* less than 2 minutes after the refresh: it is not set to error and no
\* restart is set for it.
C36_HealthyStaysHealthy ==
    [][\A r \in RunIds : HeartbeatTurn(r) =>
          LET doc == CurrentDoc(r)
          IN  (doc.type \in ChatOrCustom /\ RefreshedLately(doc.id)) =>
                  /\ store' \in {store, HealthyWrite(store, doc, now)}
                  /\ timers' = timers]_vars

----------------------------------------------------------------------------
(* The orphan sweep after a failed delete *)

\* C37: an orphan-eligible bot whose delete fails in an orphan sweep is left
\* eligible (status error or idle, lastActive as it was), so that a later
\* orphan sweep selects it and retries the deletion.
C37_FailedDeleteStaysEligible ==
    [][\A r \in RunIds : CleanupTurn(r) =>
          LET b == CurrentDoc(r).id
          IN  (/\ Exists(store, b)
               /\ b \in Selected("cleanup", store, now)
               /\ Exists(store', b))
              => b \in Selected("cleanup", store', now)]_vars

----------------------------------------------------------------------------
(* After shutdown *)

\* C38: once shutdown has completed, no bot's stored status changes any
\* more: a restart attempt or completion that was pending on a timer and a
\* heartbeat sweep that was in flight write nothing afterwards.
C38_NothingAfterShutdown ==
    [][shut.pc = "done" => store' = store]_vars

\* shutdown completed over a bot whose restart completion was pending: the
\* bot is left starting
C38_Witness ==
    /\ shut.pc = "done"
    /\ exited
    /\ \E b \in DOMAIN store : store[b].status = "starting"

----------------------------------------------------------------------------
(* Assign, then release *)

\* the registry after assignBot() and releaseBot of the id it returned
AssignThenRelease(srv) ==
    LET r == assignBot(srv) IN releaseBot(r.servers, r.ret)

\* the step is the release of the node the call before it, an assign, returned
ReleasesLastAssigned ==
    /\ IsCall("release")
    /\ Len(calls) >= 1
    /\ LastCall.op = "assign"
    /\ LastCall.ret = calls'[Len(calls')].arg

\* C39: on a registry with an online node, assign followed by the release of
\* the id it returned leaves activeBots of every node as it was before the
\* assign.
C39_AssignReleaseRoundTrip ==
    /\ [](Online(servers) # {} =>
            \A s \in ServerIds :
                AssignThenRelease(servers)[s].activeBots = servers[s].activeBots)
    /\ [][ReleasesLastAssigned =>
            assignBot(servers') = [servers |-> servers, ret |-> LastCall.ret]]_vars

\* an assign that took the loaded second node, the first being offline, and
\* the release of that node
C39_Witness ==
    /\ Len(calls) = 2
    /\ calls[1] = [op |-> "assign", arg |-> Null, ret |-> "server-2"]
    /\ calls[2] = [op |-> "release", arg |-> "server-2", ret |-> Null]
    /\ servers["server-1"].status = "offline"
    /\ servers["server-2"].activeBots = MaxLoad

====
